---- MODULE Spec2Model ----
(***************************************************************************)
(* Link manager of streamlit_app.py: LinkManager.extract_metadata (URL     *)
(* validation, fetch, Open Graph / Twitter Card / <title> fallbacks),      *)
(* LinkManager.save_link (INSERT OR REPLACE into the links table) and      *)
(* LinkManager.get_all_links (SELECT ... ORDER BY added_at DESC), driven   *)
(* by main() once per script run of each browser session.                  *)
(*                                                                         *)
(* Text is a sequence of tokens.  A token is one character wherever the    *)
(* code looks at a length (the description field) and a lexical unit of a  *)
(* URL (scheme, "://", host, "/", path segment) or a whole title           *)
(* elsewhere.  Python's None/object pairs are sequences of length 0 / 1.   *)
(***************************************************************************)
EXTENDS Integers, Sequences, FiniteSets, TLC

VARIABLES
  tableExists,  \* links.db holds the links table
  rows,         \* committed rows of the links table
  seq,          \* sqlite_sequence entry of links (largest id ever used)
  pc,           \* position of each session's script run in main()
  url,          \* save_link's url argument, per session
  meta,         \* save_link's local `metadata`, per session
  ret,          \* value returned by the session's save_link call
  resp,         \* what requests.get gave the session's extract_metadata
  stamp,        \* datetime.now() as read by the latest save_link to write
  fetched,      \* urls the session's run has called requests.get for
  saved         \* urls for which save_link has returned True

vars == <<tableExists, rows, seq, pc, url, meta, ret, resp, stamp, fetched, saved>>

None == <<>>

Some(x) == <<x>>

EmptyText == <<>>

\* Python's `a or b` on strings: the first operand unless it is falsy.
PyOr(a, b) == IF a # EmptyText THEN a ELSE b

(***************************************************************************)
(* Literals of extract_metadata.                                           *)
(***************************************************************************)
Untitled == <<"Untitled">>

NoDescription ==
  <<"N","o"," ","d","e","s","c","r","i","p","t","i","o","n">>

UnableToFetch ==
  <<"U","n","a","b","l","e"," ","t","o"," ","f","e","t","c","h"," ",
    "m","e","t","a","d","a","t","a">>

Ellipsis == <<".", ".", ".">>

NoPreviewImage ==
  <<"https", "://", "via.placeholder.com", "/", "300x200", "?", "text=No+Preview">>

PreviewUnavailableImage ==
  <<"https", "://", "via.placeholder.com", "/", "300x200", "?", "text=Preview+Unavailable">>

MaxDescLen == 250

(***************************************************************************)
(* validators.url(url): scheme, "://", a well-formed host, then nothing or *)
(* a path.                                                                 *)
(***************************************************************************)
UrlSchemes == {"http", "https", "ftp", "ftps"}

WellFormedHosts == {"example.com", "news.example.org", "127.0.0.1"}

ValidatorsUrl(u) ==
  /\ Len(u) >= 3
  /\ u[1] \in UrlSchemes
  /\ u[2] = "://"
  /\ u[3] \in WellFormedHosts
  /\ (Len(u) > 3 => u[4] \in {"/", "?"})

(***************************************************************************)
(* The parsed document (soup): its meta tags in document order and its     *)
(* title element.  A meta tag has an optional property attribute, an       *)
(* optional name attribute and an optional content attribute.              *)
(***************************************************************************)
MetaTag(p, n, c) == [property |-> p, name |-> n, content |-> c]

\* soup.find('meta', property=key): the first meta tag whose property
\* attribute equals key, or None.
FindMetaByProperty(soup, key) ==
  LET hits == {i \in 1..Len(soup.metas) : soup.metas[i].property = Some(key)}
  IN  IF hits = {} THEN None
      ELSE Some(soup.metas[CHOOSE i \in hits : \A j \in hits : i <= j])

\* (tag and tag.get('content')), with every falsy outcome as the empty text.
TagContent(tag) ==
  IF tag = None THEN EmptyText
  ELSE IF tag[1].content = None THEN EmptyText
  ELSE tag[1].content[1]

\* (soup.title and soup.title.string)
TitleString(soup) ==
  IF ~soup.title.present THEN EmptyText
  ELSE IF soup.title.string = None THEN EmptyText
  ELSE soup.title.string[1]

ExtractTitle(soup, u) ==
  PyOr(TagContent(FindMetaByProperty(soup, "og:title")),
    PyOr(TagContent(FindMetaByProperty(soup, "twitter:title")),
      PyOr(TitleString(soup), u)))

ExtractDescription(soup) ==
  PyOr(TagContent(FindMetaByProperty(soup, "og:description")),
    PyOr(TagContent(FindMetaByProperty(soup, "twitter:description")),
      EmptyText))

ExtractImage(soup) ==
  PyOr(TagContent(FindMetaByProperty(soup, "og:image")),
    PyOr(TagContent(FindMetaByProperty(soup, "twitter:image")),
      EmptyText))

\* image_url.startswith(('http://', 'https://'))
StartsWithHttp(t) ==
  /\ Len(t) >= 2
  /\ t[1] \in {"http", "https"}
  /\ t[2] = "://"

\* urllib.parse.urljoin(base, ref) for a non-empty ref without dot segments.
UrlJoin(base, ref) ==
  LET origin  == SubSeq(base, 1, 3)
      slashes == {i \in 4..Len(base) : base[i] = "/"}
      lastSl  == CHOOSE i \in slashes : \A j \in slashes : j <= i
  IN  IF Len(ref) >= 2 /\ ref[2] = "://" THEN ref
      ELSE IF ref[1] = "//" THEN <<base[1], "://">> \o Tail(ref)
      ELSE IF ref[1] = "/" THEN origin \o ref
      ELSE IF slashes = {} THEN origin \o <<"/">> \o ref
      ELSE SubSeq(base, 1, lastSl) \o ref

AbsoluteImage(u, image) ==
  IF image # EmptyText /\ ~StartsWithHttp(image) THEN UrlJoin(u, image)
  ELSE image

TruncateDescription(d) ==
  IF Len(d) > MaxDescLen THEN SubSeq(d, 1, MaxDescLen) \o Ellipsis ELSE d


(***************************************************************************)
(* What requests.get gives: an exception raised by the call, or a response *)
(* with a status code and a body.  The body parses into a soup or makes    *)
(* the parse stage raise.                                                  *)
(***************************************************************************)
NoTitleElement == [present |-> FALSE, string |-> None]

EmptyBody == [parses |-> TRUE, metas |-> <<>>, title |-> NoTitleElement]

NoResponse == [exc |-> "not requested", status |-> 0, body |-> EmptyBody]

FailedRequest(e) == [exc |-> e, status |-> 0, body |-> EmptyBody]

HttpResponse(st, b) == [exc |-> "", status |-> st, body |-> b]

\* raise_for_status() as it would be if only server errors raised.
RaiseForServerErrorsOnly(status) == status >= 500 /\ status < 600

\* response.raise_for_status(): HTTPError for 4xx and 5xx.
RaiseForStatus(status) == status >= 400 /\ status < 600

\* The exception the try block raises on the answer r, "" when it runs through:
\* requests.get raises, or raise_for_status does, or the parse stage does.
ExceptionOf(r) ==
  IF r.exc # "" THEN r.exc
  ELSE IF RaiseForStatus(r.status) THEN "HTTPError"
  ELSE IF ~r.body.parses THEN "ParserRejectedMarkup"
  ELSE ""

\* `except Exception`: every exception class of the try block derives from it.
CaughtByExcept(e) ==
  e \in {"ConnectionError", "Timeout", "HTTPError", "ParserRejectedMarkup"}

\* The except branch's record.
DegradedMetadata(u) ==
  [title |-> u, description |-> UnableToFetch, image_url |-> PreviewUnavailableImage]

\* The try block's record as it would be without the `or` defaults of its
\* return statement.
ParsedMetadataWithoutDefaults(u, soup) ==
  [title       |-> ExtractTitle(soup, u),
   description |-> TruncateDescription(ExtractDescription(soup)),
   image_url   |-> AbsoluteImage(u, ExtractImage(soup))]

\* The try block's record.
ParsedMetadata(u, soup) ==
  [title       |-> PyOr(ExtractTitle(soup, u), Untitled),
   description |-> PyOr(TruncateDescription(ExtractDescription(soup)), NoDescription),
   image_url   |-> PyOr(AbsoluteImage(u, ExtractImage(soup)), NoPreviewImage)]

\* extract_metadata as it would be with the validity check after the fetch.
ExtractMetadataFetchFirst(u, r) ==
  IF ~ValidatorsUrl(u) THEN [ret |-> None, net |-> TRUE, raised |-> ""]
  ELSE IF ExceptionOf(r) = ""
    THEN [ret |-> Some(ParsedMetadata(u, r.body)), net |-> TRUE, raised |-> ""]
  ELSE [ret |-> Some(DegradedMetadata(u)), net |-> TRUE, raised |-> ""]

\* extract_metadata(url) when the network answers r: the returned value,
\* whether requests.get was called, and the exception that leaves the function
\* ("" when it returns).
ExtractMetadata(u, r) ==
  IF ~ValidatorsUrl(u) THEN [ret |-> None, net |-> FALSE, raised |-> ""]
  ELSE IF ExceptionOf(r) = ""
    THEN [ret |-> Some(ParsedMetadata(u, r.body)), net |-> TRUE, raised |-> ""]
  ELSE IF CaughtByExcept(ExceptionOf(r))
    THEN [ret |-> Some(DegradedMetadata(u)), net |-> TRUE, raised |-> ""]
  ELSE [ret |-> None, net |-> TRUE, raised |-> ExceptionOf(r)]

(***************************************************************************)
(* The links table.                                                        *)
(***************************************************************************)
MaxId == 2

NumSessions == 2

Sessions == 1..NumSessions

\* datetime.now(): a second and its microseconds.
Times ==
  {[sec |-> 0, usec |-> 0], [sec |-> 0, usec |-> 500000], [sec |-> 1, usec |-> 0]}

\* sqlite3's datetime adapter: isoformat(" "), no fraction when it is zero.
AdaptDatetime(t) == IF t.usec = 0 THEN <<t.sec>> ELSE <<t.sec, t.usec>>

\* SQLite's BINARY collation on the stored text: memcmp, a prefix sorts first.
RECURSIVE TextLess(_, _)
TextLess(a, b) ==
  IF b = <<>> THEN FALSE
  ELSE IF a = <<>> THEN TRUE
  ELSE IF Head(a) # Head(b) THEN Head(a) < Head(b)
  ELSE TextLess(Tail(a), Tail(b))

\* create_table as it would be with DROP TABLE IF EXISTS before the CREATE.
CreateTableDropping(exists, tbl) == [exists |-> TRUE, rows |-> {}]

\* CREATE TABLE IF NOT EXISTS links (...); commit
CreateTable(exists, tbl) ==
  [exists |-> TRUE, rows |-> IF exists THEN tbl ELSE {}]

\* The statement as it would act on a url column without UNIQUE.
InsertWithoutUnique(tbl, s, u, m, at) ==
  LET row == [id |-> s + 1, url |-> u, title |-> m.title,
              description |-> m.description, image_url |-> m.image_url,
              added_at |-> at]
  IN  [error |-> FALSE, rows |-> tbl \cup {row}, seq |-> s + 1]

\* The statement as a plain INSERT: a taken url raises sqlite3.IntegrityError.
InsertOrAbort(tbl, s, u, m, at) ==
  LET conflicts == {r \in tbl : r.url = u}
      row == [id |-> s + 1, url |-> u, title |-> m.title,
              description |-> m.description, image_url |-> m.image_url,
              added_at |-> at]
  IN  IF conflicts # {} THEN [error |-> TRUE, rows |-> tbl, seq |-> s]
      ELSE [error |-> FALSE, rows |-> tbl \cup {row}, seq |-> s + 1]

\* INSERT OR REPLACE INTO links (url, title, description, image_url, added_at)
\* with url UNIQUE and id INTEGER PRIMARY KEY AUTOINCREMENT; commit.
InsertOrReplace(tbl, s, u, m, at) ==
  LET conflicts == {r \in tbl : r.url = u}
      row == [id |-> s + 1, url |-> u, title |-> m.title,
              description |-> m.description, image_url |-> m.image_url,
              added_at |-> at]
  IN  [error |-> FALSE, rows |-> (tbl \ conflicts) \cup {row}, seq |-> s + 1]

\* ORDER BY added_at (ascending) over a sequence of rows.
OrderedByAddedAtAsc(s) ==
  \A i, j \in 1..Len(s) : i < j => ~TextLess(s[j].added_at, s[i].added_at)

\* ORDER BY added_at DESC over a sequence of rows.
OrderedByAddedAtDesc(s) ==
  \A i, j \in 1..Len(s) : i < j => ~TextLess(s[i].added_at, s[j].added_at)

\* The query as it would return with fetchmany(): the first row only.
GetAllLinksFirstRowOnly(tbl) ==
  IF tbl = {} THEN {<<>>}
  ELSE {<<r>> : r \in {x \in tbl : \A y \in tbl : ~TextLess(x.added_at, y.added_at)}}

\* SELECT * FROM links ORDER BY added_at DESC; fetchall(): the sequences the
\* statement may return (rows with equal added_at come in any order).
GetAllLinksResults(tbl) ==
  LET n == Cardinality(tbl)
  IN  {s \in [1..n -> tbl] :
         /\ \A i, j \in 1..n : i # j => s[i] # s[j]
         /\ OrderedByAddedAtDesc(s)}

(***************************************************************************)
(* Script runs: main() constructs a LinkManager, calls save_link when the  *)
(* form was submitted with a url, then get_all_links.  Sessions run in     *)
(* their own threads with their own connection; save_link gives way to the *)
(* other sessions while it waits for the network.                          *)
(***************************************************************************)
NoTime == [sec |-> 0, usec |-> 0]

Init ==
  /\ tableExists = FALSE
  /\ rows = {}
  /\ seq = 0
  /\ pc = [p \in Sessions |-> "start"]
  /\ url = [p \in Sessions |-> EmptyText]
  /\ meta = [p \in Sessions |-> None]
  /\ ret = [p \in Sessions |-> "-"]
  /\ resp = [p \in Sessions |-> NoResponse]
  /\ stamp = NoTime
  /\ fetched = [p \in Sessions |-> {}]
  /\ saved = {}

\* LinkManager.__init__: connect and create_table.
Construct(p) ==
  /\ pc[p] = "start"
  /\ LET t == CreateTable(tableExists, rows)
     IN  /\ tableExists' = t.exists
         /\ rows' = t.rows
  /\ pc' = [pc EXCEPT ![p] = "form"]
  /\ UNCHANGED <<seq, url, meta, ret, resp, stamp, fetched, saved>>

\* main(): the form was not submitted, or the url field was empty.
NoSubmit(p) ==
  /\ pc[p] = "form"
  /\ pc' = [pc EXCEPT ![p] = "list"]
  /\ UNCHANGED <<tableExists, rows, seq, url, meta, ret, resp, stamp, fetched, saved>>

\* save_link(url) up to `if metadata:`; returns False when it is None.  An
\* exception that leaves extract_metadata ends the script run.
SaveExtractOn(p, U, R) ==
  /\ pc[p] = "form"
  /\ \E u \in U, r \in R :
       LET out == ExtractMetadata(u, r)
       IN  /\ url' = [url EXCEPT ![p] = u]
           /\ resp' = [resp EXCEPT ![p] = IF out.net THEN r ELSE NoResponse]
           /\ meta' = [meta EXCEPT ![p] = out.ret]
           /\ fetched' = [fetched EXCEPT ![p] = IF out.net THEN @ \cup {u} ELSE @]
           /\ ret' = [ret EXCEPT ![p] =
                        IF out.raised = "" /\ out.ret = None THEN "False" ELSE "-"]
           /\ pc' = [pc EXCEPT ![p] =
                       IF out.raised # "" THEN "crashed"
                       ELSE IF out.ret = None THEN "list" ELSE "insert"]
  /\ UNCHANGED <<tableExists, rows, seq, stamp, saved>>

\* save_link: the INSERT OR REPLACE statement, commit and return.
SaveInsert(p) ==
  /\ pc[p] = "insert"
  /\ seq < MaxId
  /\ \E now \in Times :
       LET res == InsertOrReplace(rows, seq, url[p], meta[p][1], AdaptDatetime(now))
       IN  /\ stamp' = now
           /\ rows' = res.rows
           /\ seq' = res.seq
           /\ ret' = [ret EXCEPT ![p] = IF res.error THEN "False" ELSE "True"]
           /\ saved' = IF res.error THEN saved ELSE saved \cup {url[p]}
  /\ pc' = [pc EXCEPT ![p] = "list"]
  /\ meta' = [meta EXCEPT ![p] = None]
  /\ resp' = [resp EXCEPT ![p] = NoResponse]
  /\ UNCHANGED <<tableExists, url, fetched>>

\* get_all_links() and the rendering of the cards, which ends the run: the
\* statement returns one of GetAllLinksResults(rows) and changes nothing.
GetAllLinks(p) ==
  /\ pc[p] = "list"
  /\ GetAllLinksResults(rows) # {}
  /\ pc' = [pc EXCEPT ![p] = "start"]
  /\ url' = [url EXCEPT ![p] = EmptyText]
  /\ ret' = [ret EXCEPT ![p] = "-"]
  /\ fetched' = [fetched EXCEPT ![p] = {}]
  /\ UNCHANGED <<tableExists, rows, seq, meta, resp, stamp, saved>>

(***************************************************************************)
(* Inputs.                                                                 *)
(***************************************************************************)
ArticleUrl == <<"https", "://", "example.com", "/", "article">>

HostUrl == <<"http", "://", "127.0.0.1">>

MissingSchemeUrl == <<"example.com", "/", "article">>

BadHostUrl == <<"https", "://", "exa mple", "/", "article">>

MailtoUrl == <<"mailto", ":", "a@example.com">>

ValidUrls == {ArticleUrl, HostUrl}

InvalidUrls == {MissingSchemeUrl, BadHostUrl, MailtoUrl, EmptyText}

CdnImage == <<"https", "://", "cdn.example.com", "/", "og.png">>

RootRelativeImage == <<"/", "img", "/", "preview.png">>

RelativeImage == <<"preview.png">>

FtpImage == <<"ftp", "://", "files.example.com", "/", "tw.png">>

NetworkPathImage == <<"//", "cdn.example.com", "/", "tw.png">>

Chars(n) == [i \in 1..n |-> "x"]

\* The forms in which a page may carry one metadata key.
ByProperty(key, value) == <<MetaTag(Some(key), None, Some(value))>>

ByName(key, value) == <<MetaTag(None, Some(key), Some(value))>>

WithoutContent(key) == <<MetaTag(Some(key), None, None)>>

TitleElements ==
  {NoTitleElement,
   [present |-> TRUE, string |-> None],
   [present |-> TRUE, string |-> Some(<<"Doc title">>)]}

OgTitleForms ==
  {<<>>, ByProperty("og:title", <<"OG title">>), ByName("og:title", <<"OG title">>),
   ByProperty("og:title", EmptyText), WithoutContent("og:title")}

TwitterTitleForms ==
  {<<>>, ByProperty("twitter:title", <<"TW title">>),
   ByName("twitter:title", <<"TW title">>)}

OgDescriptionForms ==
  {<<>>, ByProperty("og:description", Chars(MaxDescLen)),
   ByProperty("og:description", Chars(MaxDescLen + 1))}

TwitterDescriptionForms ==
  {<<>>, ByProperty("twitter:description", <<"t", "w">>),
   ByName("twitter:description", <<"t", "w">>)}

OgImageForms ==
  {<<>>, ByProperty("og:image", CdnImage), ByProperty("og:image", RootRelativeImage),
   ByName("og:image", CdnImage)}

TwitterImageForms ==
  {<<>>, ByProperty("twitter:image", RelativeImage),
   ByName("twitter:image", FtpImage)}

Bodies ==
  {[parses |-> TRUE, metas |-> a \o b \o c \o d \o e \o f, title |-> t] :
     a \in OgTitleForms, b \in TwitterTitleForms, c \in OgDescriptionForms,
     d \in TwitterDescriptionForms, e \in OgImageForms, f \in TwitterImageForms,
     t \in TitleElements}

UnparsableBody == [parses |-> FALSE, metas |-> <<>>, title |-> NoTitleElement]

Statuses == {200, 300, 404, 500}

Responses ==
  {FailedRequest("ConnectionError"), FailedRequest("Timeout")}
    \cup {HttpResponse(st, b) : st \in Statuses, b \in Bodies \cup {UnparsableBody}}

\* The pages the sessions of the shared store meet.
CardBody ==
  [parses |-> TRUE,
   metas |-> ByProperty("og:title", <<"OG title">>)
               \o ByProperty("og:description", <<"o", "g">>)
               \o ByProperty("og:image", RootRelativeImage),
   title |-> [present |-> TRUE, string |-> Some(<<"Doc title">>)]]

StoreResponses == {HttpResponse(200, CardBody), HttpResponse(500, EmptyBody)}

StoreUrls == ValidUrls \cup {MissingSchemeUrl}

SaveExtract(p) == SaveExtractOn(p, StoreUrls, StoreResponses)

SaveExtractAny(p) == SaveExtractOn(p, ValidUrls \cup InvalidUrls, Responses)

Next ==
  \E p \in Sessions :
    \/ Construct(p)
    \/ NoSubmit(p)
    \/ SaveExtract(p)
    \/ SaveInsert(p)
    \/ GetAllLinks(p)

Spec == Init /\ [][Next]_vars

\* One script run of one session on a fresh database, over every page.
NextOneRun ==
  \/ ~tableExists /\ Construct(1)
  \/ NoSubmit(1)
  \/ SaveExtractAny(1)
  \/ SaveInsert(1)
  \/ GetAllLinks(1)

SpecOneRun == Init /\ [][NextOneRun]_vars

(***************************************************************************)
(* Properties.                                                             *)
(***************************************************************************)
RowsOf(u) == {r \in rows : r.url = u}

\* C1: in every state reached by any interleaving of save_link calls, every
\* url of the links table has exactly one row, and so has every url a
\* save_link has returned True for, however often it was saved.
C1_OneRecordPerUrl ==
  \A u \in {r.url : r \in rows} \cup saved : Cardinality(RowsOf(u)) = 1

\* Both sessions have saved the same url, and the table holds one row.
C1_SameUrlSavedTwice ==
  /\ seq = 2
  /\ Cardinality(rows) = 1
  /\ \A p \in {1, 2} : pc[p] = "list" /\ ret[p] = "True" /\ url[p] = ArticleUrl

\* C2: a save_link call with a url that fails the validity check gets no
\* record from extract_metadata, issues no fetch, returns False and leaves
\* the table as it was.
C2_InvalidUrlRejected ==
  [][\A p \in Sessions :
       (pc[p] = "form" /\ url'[p] # url[p] /\ url'[p] \in InvalidUrls)
         => /\ meta'[p] = None
            /\ fetched'[p] = fetched[p]
            /\ ret'[p] = "False"
            /\ pc'[p] = "list"
            /\ rows' = rows
            /\ seq' = seq]_vars

\* A save_link of a url without scheme has returned False on a table that
\* holds a row.
C2_RejectedOnFilledStore ==
  \E p \in Sessions :
    /\ pc[p] = "list"
    /\ url[p] = MissingSchemeUrl
    /\ ret[p] = "False"
    /\ fetched[p] = {}
    /\ rows # {}

\* The fetch failed: the request raised, the status is an error status, or
\* the body cannot be parsed.
FetchFailed(r) ==
  \/ r.exc \in {"ConnectionError", "Timeout"}
  \/ r.exc = "" /\ r.status \in {404, 500}
  \/ r.exc = "" /\ ~r.body.parses

\* The fetch succeeded with a parsed page.
FetchSucceeded(r) == r.exc = "" /\ r.status = 200 /\ r.body.parses

CardTags(body, key) ==
  {i \in 1..Len(body.metas) :
     /\ body.metas[i].property = Some(key) \/ body.metas[i].name = Some(key)
     /\ body.metas[i].content \notin {None, Some(EmptyText)}}

HasCard(body, key) == CardTags(body, key) # {}

CardText(body, key) ==
  body.metas[CHOOSE i \in CardTags(body, key) :
               \A j \in CardTags(body, key) : i <= j].content[1]

HasTitleElement(body) == body.title.present /\ body.title.string # None

\* C4: on a successful fetch the title is the Open Graph title when the page
\* has one, else the Twitter Card title when it has one, else the text of the
\* title element when it has one, else the url.
C4_TitleFallbackOrder ==
  \A p \in Sessions :
    (pc[p] = "insert" /\ FetchSucceeded(resp[p])) =>
      LET body == resp[p].body
      IN  meta[p][1].title =
            IF HasCard(body, "og:title") THEN CardText(body, "og:title")
            ELSE IF HasCard(body, "twitter:title") THEN CardText(body, "twitter:title")
            ELSE IF HasTitleElement(body) THEN body.title.string[1]
            ELSE url[p]

\* The value a field gets from its Open Graph key og and its Twitter Card key
\* tw when each lookup accepts both attribute forms; "" when neither is there.
CardValue(body, og, tw) ==
  IF HasCard(body, og) THEN CardText(body, og)
  ELSE IF HasCard(body, tw) THEN CardText(body, tw)
  ELSE EmptyText

\* C5: each of the six lookups finds its tag whether the key stands in the
\* property attribute or in the name attribute, so a field for which the page
\* carries a card value in either form gets that value (the description
\* truncated, the image made absolute).
C5_LookupAcceptsPropertyOrName ==
  \A p \in Sessions :
    (pc[p] = "insert" /\ FetchSucceeded(resp[p])) =>
      LET body == resp[p].body
          t == CardValue(body, "og:title", "twitter:title")
          d == CardValue(body, "og:description", "twitter:description")
          i == CardValue(body, "og:image", "twitter:image")
      IN  /\ t # EmptyText => meta[p][1].title = t
          /\ d # EmptyText => meta[p][1].description = TruncateDescription(d)
          /\ i # EmptyText => meta[p][1].image_url = AbsoluteImage(url[p], i)

\* C6: get_all_links returns the empty sequence on an empty table, and after
\* save_link has returned True for N distinct urls every sequence it may
\* return has N rows, one for each of these urls.
C6_OneRowPerSavedUrl ==
  /\ GetAllLinksResults(rows) # {}
  /\ rows = {} => GetAllLinksResults(rows) = {<<>>}
  /\ \A s \in GetAllLinksResults(rows) :
       /\ Len(s) = Cardinality(saved)
       /\ {s[i].url : i \in 1..Len(s)} = saved
       /\ \A i, j \in 1..Len(s) : s[i].url = s[j].url => i = j

\* Two distinct urls are saved and a session is about to list them.
C6_TwoDistinctSaved ==
  /\ saved = {ArticleUrl, HostUrl}
  /\ \E p \in Sessions : pc[p] = "list"
  /\ \E s \in GetAllLinksResults(rows) : Len(s) = 2

\* The datetime a stored added_at text stands for.
ParseDatetime(text) ==
  [sec |-> text[1], usec |-> IF Len(text) = 2 THEN text[2] ELSE 0]

Later(t1, t2) ==
  t1.sec > t2.sec \/ (t1.sec = t2.sec /\ t1.usec > t2.usec)

\* C7: in every sequence get_all_links may return, a row whose added_at is
\* later stands before a row whose added_at is earlier; and added_at is the
\* datetime.now() of the save that wrote the row.
C7_MostRecentFirst ==
  /\ \A s \in GetAllLinksResults(rows) :
       \A i, j \in 1..Len(s) :
         Later(ParseDatetime(s[i].added_at), ParseDatetime(s[j].added_at)) => i < j
  /\ seq > 0 => \E r \in rows : r.id = seq /\ ParseDatetime(r.added_at) = stamp

\* Two rows of different seconds and sub-second parts are listed, the one
\* written by the later save first.
C7_LaterSaveListedFirst ==
  /\ \E p \in Sessions : pc[p] = "list"
  /\ \E s \in GetAllLinksResults(rows) :
       /\ Len(s) = 2
       /\ s[1].id = 2
       /\ s[1].added_at = <<1>>
       /\ s[2].added_at = <<0, 500000>>

\* C8: a step removes or changes a stored row only when it is a save_link of
\* the row's own url returning True; constructing a LinkManager, listing, a
\* rejected save and a save of another url leave every stored row as it is.
C8_RowsOnlyReplacedBySameUrl ==
  [][\A r \in rows :
       \/ r \in rows'
       \/ \E p \in Sessions :
            /\ pc[p] = "insert"
            /\ pc'[p] = "list"
            /\ url[p] = r.url
            /\ ret'[p] = "True"]_vars

\* Both sessions have constructed a LinkManager on a table that held a row,
\* and the row is there.
C8_ConstructedOnFilledStore ==
  /\ rows # {}
  /\ \A p \in {1, 2} : pc[p] = "form"

NonEmptyFields(m) ==
  /\ m.title # EmptyText
  /\ m.description # EmptyText
  /\ m.image_url # EmptyText

\* C9: for a valid url extract_metadata returns a record, whatever the fetch
\* gave, with non-empty title, description and image; and so has every row
\* of the table.
C9_NoEmptyField ==
  /\ \A p \in Sessions :
       url[p] \in ValidUrls =>
         /\ pc[p] \in {"insert", "list"}
         /\ pc[p] = "insert" => meta[p] # None /\ NonEmptyFields(meta[p][1])
         /\ pc[p] = "list" => ret[p] = "True"
  /\ \A r \in rows : NonEmptyFields(r)

\* A page without any metadata and without title element has been saved:
\* every field of its row is a default.
C9_DefaultsStored ==
  \E r \in rows :
    /\ r.title = r.url
    /\ r.description = NoDescription
    /\ r.image_url = NoPreviewImage

\* C10: save_link of a valid url, stored already or not, returns True, and
\* afterwards the one row of that url holds the title, description and image
\* of this call's extract_metadata result (the degraded record when this
\* call's fetch failed) and this call's datetime.now(); False is never
\* returned for a valid url.
C10_ReplaceOnConflict ==
  [][\A p \in Sessions :
       /\ ret'[p] = "False" => url'[p] \notin ValidUrls
       /\ pc[p] = "insert" /\ pc'[p] # "insert" =>
            /\ pc'[p] = "list"
            /\ ret'[p] = "True"
            /\ \E r \in rows' :
                 /\ {x \in rows' : x.url = url[p]} = {r}
                 /\ r.title = meta[p][1].title
                 /\ r.description = meta[p][1].description
                 /\ r.image_url = meta[p][1].image_url
                 /\ ParseDatetime(r.added_at) = stamp'
                 /\ FetchFailed(resp[p]) => r.description = UnableToFetch
                 /\ \A old \in RowsOf(url[p]) : r.id > old.id]_vars

\* A second save of a url has returned True and its degraded record has
\* taken the place of the first save's row.
C10_DegradedReplacedRow ==
  \E p \in Sessions :
    /\ pc[p] = "list"
    /\ ret[p] = "True"
    /\ RowsOf(url[p]) # {}
    /\ \A r \in RowsOf(url[p]) : r.id = 2 /\ r.description = UnableToFetch
    /\ Cardinality(rows) = 1

====
